---- MODULE Spec2Model ----
(***************************************************************************)
(* deployd (gograz/deployd): a webhook daemon that runs `make deploy` in a *)
(* project folder.  Three goroutines (status locker, worker, HTTP server)  *)
(* are coordinated over two buffered channels, workChan (capacity 1) and   *)
(* lockerChan (capacity 5); the status is persisted in a status file and   *)
(* loaded again by main() on the next start.                               *)
(*                                                                         *)
(* Strings that the code splits or concatenates are sequences of tokens:   *)
(* NL is the newline character, every other token is a run of characters   *)
(* without a newline.  The empty string is <<>>.                           *)
(***************************************************************************)
EXTENDS Integers, Sequences, FiniteSets, TLC

----------------------------------------------------------------------------
(* Bounds of the model *)
NumHandlers == 2      \* status queries in flight at the same time
MaxRequests == 2      \* requests served
MaxTriggers == 3       \* triggers served when nothing else is requested

(* Program constants *)
WorkChanCap == 1
LockerChanCap == 5
ErrorsCap == 3
StatusOK == 200
StatusBadRequest == 400
StatusConflict == 409
StatusInternalServerError == 500

SAVE_CMD == 0
GET_CMD == 1

----------------------------------------------------------------------------
(* Strings *)
NL == "\n"
EmptyString == <<>>
NotStarted == <<"not started">>
Started == <<"started">>
Ok == <<"ok">>
Failed == <<"failed">>

(* the combined output of a run of make deploy: nothing, or lines *)
Outputs == {<<>>, <<"x", NL, "y">>}

(* the status file: absent, or its content *)
NoFile == [exists |-> FALSE, data |-> <<>>]
FileOf(data) == [exists |-> TRUE, data |-> data]

(* index of the first occurrence of sep in data, 0 if there is none *)
RECURSIVE IndexFrom(_, _, _)
IndexFrom(data, sep, i) ==
    IF i > Len(data) THEN 0
    ELSE IF data[i] = sep THEN i
    ELSE IndexFrom(data, sep, i + 1)

(* strings.Split(data, "\n"): the mutant of SplitN2 that cuts at every newline *)
RECURSIVE SplitAll(_)
SplitAll(data) ==
    LET i == IndexFrom(data, NL, 1)
    IN  IF i = 0 THEN <<data>>
        ELSE <<SubSeq(data, 1, i - 1)>> \o SplitAll(SubSeq(data, i + 1, Len(data)))

(* strings.SplitN(data, "\n", 2) *)
SplitN2(data) ==
    LET i == IndexFrom(data, NL, 1)
    IN  IF i = 0 THEN <<data>>
        ELSE <<SubSeq(data, 1, i - 1), SubSeq(data, i + 1, Len(data))>>

(* loadStatusFromFile: err is "ENOENT" for a missing file; indexing        *)
(* elements[1] of a one-element slice panics.                              *)
loadStatusFromFile(f) ==
    IF ~f.exists
    THEN [Status |-> EmptyString, Output |-> EmptyString, err |-> "ENOENT", panic |-> FALSE]
    ELSE LET elements == SplitN2(f.data)
         IN  IF Len(elements) < 2
             THEN [Status |-> EmptyString, Output |-> EmptyString, err |-> "", panic |-> TRUE]
             ELSE [Status |-> elements[1], Output |-> elements[2], err |-> "", panic |-> FALSE]

(* fmt.Sprintf("%s\n%s", status, output), the bytes saveStatusToFile writes *)
FormatStatus(status, output) == status \o <<NL>> \o output

(* ioutil.WriteFile either writes the whole record, or fails: on opening   *)
(* (the file is left as it was) or after the truncation (it is left empty) *)
saveStatusToFile(status, output, f) ==
    {[file |-> FileOf(FormatStatus(status, output)), err |-> FALSE],
     [file |-> f, err |-> TRUE],
     [file |-> FileOf(<<>>), err |-> TRUE]}

----------------------------------------------------------------------------
(* Requests *)
Secret == "s3cret"
WrongSecret == "guess"

PushMain == "{\"ref\":\"refs/heads/main\"}"
PushFeature == "{\"ref\":\"refs/heads/feature\"}"
Garbage == "not json"
Payloads == {PushMain, PushFeature, Garbage}
NoPayload == ""

(* json.Unmarshal(payload, &eventData) *)
Unmarshal(payload) ==
    CASE payload = PushMain    -> [err |-> FALSE, Ref |-> <<"refs/heads/", "main">>]
      [] payload = PushFeature -> [err |-> FALSE, Ref |-> <<"refs/heads/", "feature">>]
      [] OTHER                 -> [err |-> TRUE,  Ref |-> <<>>]

(* "refs/heads/" + branch *)
BranchRef(b) == <<"refs/heads/", b>>

(* HMAC-SHA1 of the payload under the key, as an ideal keyed hash *)
HmacSha1(key, payload) == <<key, payload>>

(* fmt.Sprintf("sha1=%x", checkSum) *)
ExpectedSignature(payload, secret) == <<"sha1=", HmacSha1(secret, payload)>>

NoSignature == <<"", <<"", "">>>>

(* verifySignature: TRUE when it returns nil *)
verifySignature(payload, signature, secret) ==
    ExpectedSignature(payload, secret) = signature

(* the X-Hub-Signature headers a client may send with a payload *)
SignaturesFor(payload) ==
    {ExpectedSignature(payload, Secret), ExpectedSignature(payload, WrongSecret), NoSignature}

Response(code, text) == [code |-> code, text |-> text]
NoResponse == Response(0, "")

Handlers == 1..NumHandlers
NoChan == 0

lockerCommand(cmd, status, output, respChan) ==
    [Command |-> cmd, Status |-> status, Output |-> output, ResponseChan |-> respChan]
NoCommand == lockerCommand(SAVE_CMD, EmptyString, EmptyString, NoChan)

(* a handler of GET is idle, or waits for the reply on its respChan *)
IdleHandler == [pc |-> "idle", expect |-> NoCommand, duringBuild |-> FALSE]

NoReply == [method |-> "", code |-> 0, text |-> ""]
NoRecord == [ok |-> FALSE, Status |-> EmptyString, Output |-> EmptyString]
NoBuild == [done |-> FALSE, err |-> FALSE, output |-> EmptyString]

----------------------------------------------------------------------------
VARIABLES
    procState,    \* "running", "exited" (main returned), "crashed" (panic in main)
    exitCode,     \* exit status of the last run
    branch,       \* --branch
    file,         \* the status file
    cancelled,    \* ctx.Done() is closed
    workChan,     \* number of tokens in workChannel
    lockerChan,   \* lockerChan, oldest command first
    errors,       \* number of errors in ctrl.errors
    lockerPc, lastStatus, lastOutput,          \* startStatusLocker
    workerPc, workerStatus, workerOutput,      \* startWorker
    builds,       \* number of make processes running
    httpdPc,      \* startHTTPD: "serving" or "done"
    handler,      \* the GET handlers
    respChan,     \* respChan of each GET handler
    \* observations
    lastReply,    \* the last answer written by a handler
    fresh,        \* this run found no status file
    triggered,    \* a trigger was accepted in this run
    persistOK,    \* the last Save processed in this run was written to the file
    prevSaved,    \* the last Save processed by the previous run, when it was written
    lastSent,     \* the last Save sent on lockerChan
    nRequests,    \* requests served so far
    nAccepted,    \* triggers answered "Deployment started" in this run
    nBuilds,      \* make processes started in this run
    lastBuild     \* how the last make process of this run ended

mainVars == <<procState, exitCode, branch, cancelled>>
lockerVars == <<lockerPc, lastStatus, lastOutput>>
workerVars == <<workerPc, workerStatus, workerOutput, builds>>
httpdVars == <<httpdPc, errors>>
handlerVars == <<handler, respChan, lastReply, nRequests>>
runObs == <<fresh, prevSaved>>
buildObs == <<nAccepted, nBuilds, lastBuild>>

vars == <<procState, exitCode, branch, file, cancelled, workChan, lockerChan, errors,
          lockerPc, lastStatus, lastOutput, workerPc, workerStatus, workerOutput,
          builds, httpdPc, handler, respChan, lastReply,
          fresh, triggered, persistOK, prevSaved, lastSent,
          nRequests, nAccepted, nBuilds, lastBuild>>

----------------------------------------------------------------------------
(* main(): load the previous status, create the channels, seed lockerChan  *)
(* with a Save of the previous status and start the three goroutines.      *)
(* startStatusLocker begins with lastStatus = lastOutput = "not started".  *)
MainStart(f) ==
    LET prev == loadStatusFromFile(f)
        seed == lockerCommand(SAVE_CMD, prev.Status, prev.Output, NoChan)
    IN  /\ procState' = IF prev.panic THEN "crashed" ELSE "running"
        /\ exitCode' = IF prev.panic THEN 2 ELSE 0
        /\ cancelled' = FALSE
        /\ workChan' = 0
        /\ lockerChan' = IF prev.panic THEN <<>> ELSE <<seed>>
        /\ errors' = 0
        /\ lockerPc' = IF prev.panic THEN "done" ELSE "run"
        /\ lastStatus' = NotStarted
        /\ lastOutput' = NotStarted
        /\ workerPc' = IF prev.panic THEN "done" ELSE "select"
        /\ workerStatus' = EmptyString
        /\ workerOutput' = EmptyString
        /\ builds' = 0
        /\ httpdPc' = IF prev.panic THEN "done" ELSE "serving"
        /\ handler' = [h \in Handlers |-> IdleHandler]
        /\ respChan' = [h \in Handlers |-> <<>>]
        /\ lastReply' = NoReply
        /\ fresh' = (prev.err = "ENOENT")
        /\ triggered' = FALSE
        /\ persistOK' = FALSE
        /\ lastSent' = seed
        /\ nAccepted' = 0
        /\ nBuilds' = 0
        /\ lastBuild' = NoBuild

(* the first start: there is no status file yet *)
Init ==
    /\ branch \in {"", "main"}
    /\ file = NoFile
    /\ procState = "running"
    /\ exitCode = 0
    /\ cancelled = FALSE
    /\ workChan = 0
    /\ lockerChan = <<lockerCommand(SAVE_CMD, EmptyString, EmptyString, NoChan)>>
    /\ errors = 0
    /\ lockerPc = "run"
    /\ lastStatus = NotStarted
    /\ lastOutput = NotStarted
    /\ workerPc = "select"
    /\ workerStatus = EmptyString
    /\ workerOutput = EmptyString
    /\ builds = 0
    /\ httpdPc = "serving"
    /\ handler = [h \in Handlers |-> IdleHandler]
    /\ respChan = [h \in Handlers |-> <<>>]
    /\ lastReply = NoReply
    /\ fresh = TRUE
    /\ triggered = FALSE
    /\ persistOK = FALSE
    /\ prevSaved = NoRecord
    /\ lastSent = lockerCommand(SAVE_CMD, EmptyString, EmptyString, NoChan)
    /\ nRequests = 0
    /\ nAccepted = 0
    /\ nBuilds = 0
    /\ lastBuild = NoBuild

(* the process is started again after it has ended *)
Restart ==
    /\ procState \in {"exited", "crashed"}
    /\ MainStart(file)
    /\ UNCHANGED <<branch, file, prevSaved, nRequests>>

(* SIGINT: the signal goroutine calls cancel() *)
Cancel ==
    /\ procState = "running"
    /\ ~cancelled
    /\ cancelled' = TRUE
    /\ UNCHANGED <<procState, exitCode, branch, file, workChan, lockerChan,
                   lockerVars, workerVars, httpdVars, handlerVars,
                   runObs, buildObs, triggered, persistOK, lastSent>>

(* wg.Wait() returns and main returns: an error in ctrl.errors is fatal.   *)
(* The memory of the process is gone; the status file stays.               *)
Exit ==
    /\ procState = "running"
    /\ lockerPc = "done"
    /\ workerPc = "done"
    /\ httpdPc = "done"
    /\ procState' = "exited"
    /\ exitCode' = IF errors > 0 THEN 1 ELSE 0
    /\ prevSaved' = IF persistOK
                    THEN [ok |-> TRUE, Status |-> lastStatus, Output |-> lastOutput]
                    ELSE NoRecord
    /\ handler' = [h \in Handlers |-> IdleHandler]
    /\ respChan' = [h \in Handlers |-> <<>>]
    /\ lockerChan' = <<>>
    /\ workChan' = 0
    /\ lastStatus' = EmptyString
    /\ lastOutput' = EmptyString
    /\ lastSent' = NoCommand
    /\ lastReply' = NoReply
    /\ persistOK' = FALSE
    /\ triggered' = FALSE
    /\ nAccepted' = 0
    /\ nBuilds' = 0
    /\ lastBuild' = NoBuild
    /\ UNCHANGED <<branch, file, cancelled, errors, lockerPc, workerVars, httpdPc,
                   fresh, nRequests>>

----------------------------------------------------------------------------
(* startStatusLocker *)

(* the mutant of LockerSave that keeps the old status when the write fails *)
LockerSaveRollback ==
    /\ procState = "running"
    /\ lockerPc = "run"
    /\ lockerChan # <<>>
    /\ LET cmd == Head(lockerChan)
       IN  /\ cmd.Command = SAVE_CMD
           /\ lockerChan' = Tail(lockerChan)
           /\ \E w \in saveStatusToFile(cmd.Status, cmd.Output, file) :
                 /\ file' = w.file
                 /\ persistOK' = ~w.err
                 /\ lastStatus' = IF w.err THEN lastStatus ELSE cmd.Status
                 /\ lastOutput' = IF w.err THEN lastOutput ELSE cmd.Output
    /\ UNCHANGED <<mainVars, workChan, lockerPc, workerVars, httpdVars, handlerVars,
                   runObs, buildObs, triggered, lastSent>>

(* case cmd := <-cmdChan with cmd.Command == SAVE_CMD *)
LockerSave ==
    /\ procState = "running"
    /\ lockerPc = "run"
    /\ lockerChan # <<>>
    /\ LET cmd == Head(lockerChan)
       IN  /\ cmd.Command = SAVE_CMD
           /\ lockerChan' = Tail(lockerChan)
           /\ lastStatus' = cmd.Status
           /\ lastOutput' = cmd.Output
           /\ \E w \in saveStatusToFile(cmd.Status, cmd.Output, file) :
                 /\ file' = w.file
                 /\ persistOK' = ~w.err
    /\ UNCHANGED <<mainVars, workChan, lockerPc, workerVars, httpdVars, handlerVars,
                   runObs, buildObs, triggered, lastSent>>

(* the mutant of LockerGet that fills in the status but not the output *)
LockerGetStatusOnly ==
    /\ procState = "running"
    /\ lockerPc = "run"
    /\ lockerChan # <<>>
    /\ LET cmd == Head(lockerChan)
       IN  /\ cmd.Command = GET_CMD
           /\ Len(respChan[cmd.ResponseChan]) < 1
           /\ lockerChan' = Tail(lockerChan)
           /\ respChan' = [respChan EXCEPT ![cmd.ResponseChan] =
                              Append(@, [cmd EXCEPT !.Status = lastStatus])]
    /\ UNCHANGED <<mainVars, file, workChan, lockerVars, workerVars, httpdVars,
                   handler, lastReply, nRequests,
                   runObs, buildObs, triggered, persistOK, lastSent>>

(* case cmd := <-cmdChan with cmd.Command == GET_CMD: the reply goes to    *)
(* cmd.ResponseChan, which has room for it                                 *)
LockerGet ==
    /\ procState = "running"
    /\ lockerPc = "run"
    /\ lockerChan # <<>>
    /\ LET cmd == Head(lockerChan)
       IN  /\ cmd.Command = GET_CMD
           /\ Len(respChan[cmd.ResponseChan]) < 1
           /\ lockerChan' = Tail(lockerChan)
           /\ respChan' = [respChan EXCEPT ![cmd.ResponseChan] =
                              Append(@, [cmd EXCEPT !.Status = lastStatus,
                                                    !.Output = lastOutput])]
    /\ UNCHANGED <<mainVars, file, workChan, lockerVars, workerVars, httpdVars,
                   handler, lastReply, nRequests,
                   runObs, buildObs, triggered, persistOK, lastSent>>

(* case <-c.ctx.Done() *)
LockerExit ==
    /\ procState = "running"
    /\ lockerPc = "run"
    /\ cancelled
    /\ lockerPc' = "done"
    /\ UNCHANGED <<mainVars, file, workChan, lockerChan, lastStatus, lastOutput,
                   workerVars, httpdVars, handlerVars,
                   runObs, buildObs, triggered, persistOK, lastSent>>

----------------------------------------------------------------------------
(* startWorker *)

(* the mutant of WorkerTake that takes the token and does nothing with it *)
WorkerTakeDrop ==
    /\ procState = "running"
    /\ workerPc = "select"
    /\ workChan > 0
    /\ workChan' = workChan - 1
    /\ UNCHANGED <<mainVars, file, lockerChan, lockerVars, workerVars,
                   httpdVars, handlerVars,
                   runObs, buildObs, triggered, persistOK, lastSent>>

(* the mutant of WorkerTake that goes on to make without the Save of       *)
(* "started"                                                               *)
WorkerTakeNoStarted ==
    /\ procState = "running"
    /\ workerPc = "select"
    /\ workChan > 0
    /\ workChan' = workChan - 1
    /\ workerPc' = "launch"
    /\ UNCHANGED <<mainVars, file, lockerChan, lockerVars, workerStatus, workerOutput,
                   builds, httpdVars, handlerVars,
                   runObs, buildObs, triggered, persistOK, lastSent>>

(* case <-workChan *)
WorkerTake ==
    /\ procState = "running"
    /\ workerPc = "select"
    /\ workChan > 0
    /\ workChan' = workChan - 1
    /\ workerPc' = "sendStarted"
    /\ UNCHANGED <<mainVars, file, lockerChan, lockerVars, workerStatus, workerOutput,
                   builds, httpdVars, handlerVars,
                   runObs, buildObs, triggered, persistOK, lastSent>>

(* the mutant of WorkerSendStarted that launches make without the Save *)
WorkerSkipStarted ==
    /\ procState = "running"
    /\ workerPc = "sendStarted"
    /\ workerPc' = "launch"
    /\ UNCHANGED <<mainVars, file, workChan, lockerChan, lockerVars, workerStatus,
                   workerOutput, builds, httpdVars, handlerVars,
                   runObs, buildObs, triggered, persistOK, lastSent>>

(* lockerChan <- lockerCommand{Command: SAVE_CMD, Status: "started", Output: ""} *)
WorkerSendStarted ==
    /\ procState = "running"
    /\ workerPc = "sendStarted"
    /\ Len(lockerChan) < LockerChanCap
    /\ LET cmd == lockerCommand(SAVE_CMD, Started, EmptyString, NoChan)
       IN  /\ lockerChan' = Append(lockerChan, cmd)
           /\ lastSent' = cmd
    /\ workerPc' = "launch"
    /\ UNCHANGED <<mainVars, file, workChan, lockerVars, workerStatus, workerOutput,
                   builds, httpdVars, handlerVars,
                   runObs, buildObs, triggered, persistOK>>

(* the mutant of WorkerLaunch that starts make and does not wait for it *)
WorkerLaunchNoWait ==
    /\ procState = "running"
    /\ workerPc = "launch"
    /\ builds' = builds + 1
    /\ nBuilds' = nBuilds + 1
    /\ workerPc' = "select"
    /\ UNCHANGED <<mainVars, file, workChan, lockerChan, lockerVars, workerStatus,
                   workerOutput, httpdVars, handlerVars,
                   runObs, nAccepted, lastBuild, triggered, persistOK, lastSent>>

(* cmd.CombinedOutput() starts /usr/bin/make deploy ... *)
WorkerLaunch ==
    /\ procState = "running"
    /\ workerPc = "launch"
    /\ builds' = builds + 1
    /\ nBuilds' = nBuilds + 1
    /\ workerPc' = "wait"
    /\ UNCHANGED <<mainVars, file, workChan, lockerChan, lockerVars, workerStatus,
                   workerOutput, httpdVars, handlerVars,
                   runObs, nAccepted, lastBuild, triggered, persistOK, lastSent>>

(* the mutant of WorkerWait that does not look at the error of make *)
WorkerWaitIgnoreErr ==
    /\ procState = "running"
    /\ workerPc = "wait"
    /\ builds' = builds - 1
    /\ \E output \in Outputs, err \in BOOLEAN :
          /\ workerOutput' = output
          /\ workerStatus' = Ok
          /\ lastBuild' = [done |-> TRUE, err |-> err, output |-> output]
    /\ workerPc' = "sendFinal"
    /\ UNCHANGED <<mainVars, file, workChan, lockerChan, lockerVars, httpdVars,
                   handlerVars, runObs, nAccepted, nBuilds, triggered, persistOK,
                   lastSent>>

(* ... and returns when make has ended, with its output and its error *)
WorkerWait ==
    /\ procState = "running"
    /\ workerPc = "wait"
    /\ builds' = builds - 1
    /\ \E output \in Outputs, err \in BOOLEAN :
          /\ workerOutput' = output
          /\ workerStatus' = IF err THEN Failed ELSE Ok
          /\ lastBuild' = [done |-> TRUE, err |-> err, output |-> output]
    /\ workerPc' = "sendFinal"
    /\ UNCHANGED <<mainVars, file, workChan, lockerChan, lockerVars, httpdVars,
                   handlerVars, runObs, nAccepted, nBuilds, triggered, persistOK,
                   lastSent>>

(* the mutant of WorkerSendFinal that runs make again after it has failed *)
WorkerSendFinalRetry ==
    /\ procState = "running"
    /\ workerPc = "sendFinal"
    /\ Len(lockerChan) < LockerChanCap
    /\ LET cmd == lockerCommand(SAVE_CMD, workerStatus, workerOutput, NoChan)
       IN  /\ lockerChan' = Append(lockerChan, cmd)
           /\ lastSent' = cmd
    /\ workerPc' = IF workerStatus = Failed THEN "sendStarted" ELSE "select"
    /\ workerStatus' = EmptyString
    /\ workerOutput' = EmptyString
    /\ UNCHANGED <<mainVars, file, workChan, lockerVars, builds, httpdVars,
                   handlerVars, runObs, buildObs, triggered, persistOK>>

(* lockerChan <- lockerCommand{Command: SAVE_CMD, Output: string(output), Status: status} *)
WorkerSendFinal ==
    /\ procState = "running"
    /\ workerPc = "sendFinal"
    /\ Len(lockerChan) < LockerChanCap
    /\ LET cmd == lockerCommand(SAVE_CMD, workerStatus, workerOutput, NoChan)
       IN  /\ lockerChan' = Append(lockerChan, cmd)
           /\ lastSent' = cmd
    /\ workerPc' = "select"
    /\ workerStatus' = EmptyString
    /\ workerOutput' = EmptyString
    /\ UNCHANGED <<mainVars, file, workChan, lockerVars, builds, httpdVars,
                   handlerVars, runObs, buildObs, triggered, persistOK>>

(* the mutant of WorkerExit that also returns while make runs or before    *)
(* the Save of its result is sent                                          *)
WorkerExitAnywhere ==
    /\ procState = "running"
    /\ workerPc \in {"select", "wait", "sendFinal"}
    /\ cancelled
    /\ workerPc' = "done"
    /\ UNCHANGED <<mainVars, file, workChan, lockerChan, lockerVars, workerStatus,
                   workerOutput, builds, httpdVars, handlerVars,
                   runObs, buildObs, triggered, persistOK, lastSent>>

(* case <-c.ctx.Done() *)
WorkerExit ==
    /\ procState = "running"
    /\ workerPc = "select"
    /\ cancelled
    /\ workerPc' = "done"
    /\ UNCHANGED <<mainVars, file, workChan, lockerChan, lockerVars, workerStatus,
                   workerOutput, builds, httpdVars, handlerVars,
                   runObs, buildObs, triggered, persistOK, lastSent>>

----------------------------------------------------------------------------
(* startHTTPD.  A handler works on its request alone until its one channel *)
(* operation, so each request is one step up to that operation.            *)

Reply(method, code, text) ==
    lastReply' = [method |-> method, code |-> code, text |-> text]

(* GET: respChan := make(chan lockerCommand, 1); lockerChan <- GET_CMD.     *)
(* The handlers are alike: a new request gets the first one that is idle.  *)
GetSend(h) ==
    /\ procState = "running"
    /\ httpdPc = "serving"
    /\ nRequests < MaxRequests
    /\ handler[h].pc = "idle"
    /\ \A k \in Handlers : k < h => handler[k].pc # "idle"
    /\ Len(lockerChan) < LockerChanCap
    /\ nRequests' = nRequests + 1
    /\ lockerChan' = Append(lockerChan, lockerCommand(GET_CMD, EmptyString, EmptyString, h))
    /\ respChan' = [respChan EXCEPT ![h] = <<>>]
    /\ handler' = [handler EXCEPT ![h] = [pc |-> "waitResp", expect |-> lastSent,
                                          duringBuild |-> (builds > 0)]]
    /\ UNCHANGED <<mainVars, file, workChan, lockerVars, workerVars, httpdVars,
                   lastReply, runObs, buildObs, triggered, persistOK, lastSent>>

(* the mutant of GetResponse that reports every status but "ok" as a failure *)
GetResponseNotOk(status) ==
    IF status.Status # Ok
    THEN Response(StatusInternalServerError, "Last deployement failed")
    ELSE Response(StatusOK, "Last deployment succeeded")

(* the answer to GET for the reply of the status locker *)
GetResponse(status) ==
    IF status.Status = Failed
    THEN Response(StatusInternalServerError, "Last deployement failed")
    ELSE Response(StatusOK, "Last deployment succeeded")

(* GET: status := <-respChan, then the answer *)
GetReply(h) ==
    /\ procState = "running"
    /\ handler[h].pc = "waitResp"
    /\ respChan[h] # <<>>
    /\ LET r == GetResponse(Head(respChan[h]))
       IN  Reply("GET", r.code, r.text)
    /\ respChan' = [respChan EXCEPT ![h] = Tail(@)]
    /\ handler' = [handler EXCEPT ![h] = IdleHandler]
    /\ UNCHANGED <<mainVars, file, workChan, lockerChan, lockerVars, workerVars,
                   httpdVars, nRequests,
                   runObs, buildObs, triggered, persistOK, lastSent>>

(* the mutant of PostChecks that filters the branch before it verifies *)
PostChecksFilterFirst(payload, signature, b) ==
    LET eventData == Unmarshal(payload)
    IN  IF b # "" /\ eventData.err
        THEN Response(StatusBadRequest, "Failed to decode body")
        ELSE IF b # "" /\ eventData.Ref # BranchRef(b)
        THEN Response(StatusOK, "Not-configured branch detected. No operation required.")
        ELSE IF ~verifySignature(payload, signature, Secret)
        THEN Response(StatusBadRequest, "Invalid signature")
        ELSE NoResponse

(* the mutant of PostChecks that ignores the error of json.Unmarshal *)
PostChecksIgnoreDecodeError(payload, signature, b) ==
    IF ~verifySignature(payload, signature, Secret)
    THEN Response(StatusBadRequest, "Invalid signature")
    ELSE IF b # "" /\ Unmarshal(payload).Ref # BranchRef(b)
    THEN Response(StatusOK, "Not-configured branch detected. No operation required.")
    ELSE NoResponse

(* POST: the answer of the checks that come before the select, NoResponse  *)
(* when the request passes them all                                        *)
PostChecks(payload, signature, b) ==
    IF ~verifySignature(payload, signature, Secret)
    THEN Response(StatusBadRequest, "Invalid signature")
    ELSE IF b # ""
    THEN LET eventData == Unmarshal(payload)
         IN  IF eventData.err
             THEN Response(StatusBadRequest, "Failed to decode body")
             ELSE IF eventData.Ref # BranchRef(b)
             THEN Response(StatusOK,
                           "Not-configured branch detected. No operation required.")
             ELSE NoResponse
    ELSE NoResponse

(* POST: ioutil.ReadAll(r.Body) fails *)
PostReadError ==
    /\ procState = "running"
    /\ httpdPc = "serving"
    /\ nRequests < MaxRequests
    /\ nRequests' = nRequests + 1
    /\ Reply("POST", StatusInternalServerError, "Failed to read the request body")
    /\ UNCHANGED <<mainVars, file, workChan, lockerChan, lockerVars, workerVars,
                   httpdVars, handler, respChan,
                   runObs, buildObs, triggered, persistOK, lastSent>>

(* POST of a payload with an X-Hub-Signature header: the checks, then      *)
(* select { case workChan <- struct{}{}: ... default: ... }                *)
PostStep(payload, signature) ==
    /\ procState = "running"
    /\ httpdPc = "serving"
    /\ nRequests' = nRequests + 1
    /\ LET early == PostChecks(payload, signature, branch)
       IN  IF early # NoResponse
           THEN /\ Reply("POST", early.code, early.text)
                /\ UNCHANGED <<workChan, triggered, nAccepted>>
           ELSE IF workChan < WorkChanCap
           THEN /\ workChan' = workChan + 1
                /\ triggered' = TRUE
                /\ nAccepted' = nAccepted + 1
                /\ Reply("POST", StatusOK, "Deployment started")
           ELSE /\ Reply("POST", StatusConflict, "Deployement already in progress")
                /\ UNCHANGED <<workChan, triggered, nAccepted>>
    /\ UNCHANGED <<mainVars, file, lockerChan, lockerVars, workerVars, httpdVars,
                   handler, respChan, runObs, nBuilds, lastBuild, persistOK, lastSent>>

(* one of the requests served *)
Post(payload, signature) ==
    /\ nRequests < MaxRequests
    /\ PostStep(payload, signature)

PostHandle == \E payload \in Payloads : \E signature \in SignaturesFor(payload) :
                 Post(payload, signature)

(* the goroutine waiting on ctx.Done() calls srv.Shutdown, and             *)
(* ListenAndServe returns http.ErrServerClosed                             *)
HttpdShutdown ==
    /\ procState = "running"
    /\ httpdPc = "serving"
    /\ cancelled
    /\ httpdPc' = "done"
    /\ UNCHANGED <<mainVars, file, workChan, lockerChan, lockerVars, workerVars,
                   errors, handlerVars,
                   runObs, buildObs, triggered, persistOK, lastSent>>

(* ListenAndServe returns another error: c.errors <- err *)
HttpdFail ==
    /\ procState = "running"
    /\ httpdPc = "serving"
    /\ errors < ErrorsCap
    /\ errors' = errors + 1
    /\ httpdPc' = "done"
    /\ UNCHANGED <<mainVars, file, workChan, lockerChan, lockerVars, workerVars,
                   handlerVars, runObs, buildObs, triggered, persistOK, lastSent>>

----------------------------------------------------------------------------
Next ==
    \/ LockerSave \/ LockerGet \/ LockerExit
    \/ WorkerTake \/ WorkerSendStarted \/ WorkerLaunch \/ WorkerWait
    \/ WorkerSendFinal \/ WorkerExit
    \/ \E h \in Handlers : GetSend(h) \/ GetReply(h)
    \/ PostReadError \/ PostHandle
    \/ HttpdShutdown \/ HttpdFail
    \/ Cancel \/ Exit \/ Restart

Spec == Init /\ [][Next]_vars

(* the steps of each goroutine *)
LockerStep == LockerSave \/ LockerGet \/ LockerExit
WorkerStep ==
    \/ WorkerTake \/ WorkerSendStarted \/ WorkerLaunch \/ WorkerWait
    \/ WorkerSendFinal \/ WorkerExit

(* The Go scheduler runs every goroutine that can take a step, and make    *)
(* ends.  No signal and no request is bound to arrive, and nobody is bound *)
(* to start the process again.                                             *)
Fairness ==
    /\ WF_vars(LockerStep)
    /\ WF_vars(WorkerStep)
    /\ \A h \in Handlers : WF_vars(GetReply(h))
    /\ WF_vars(HttpdShutdown)
    /\ WF_vars(Exit)

FairSpec == Init /\ [][Next]_vars /\ Fairness

(* The program when its only requests are pushes to the configured branch  *)
(* with a good signature, the listener does not fail and the process is    *)
(* not started again.                                                      *)
Trigger ==
    /\ nRequests < MaxTriggers
    /\ PostStep(PushMain, ExpectedSignature(PushMain, Secret))

TriggerNext ==
    \/ LockerSave \/ LockerExit
    \/ WorkerTake \/ WorkerSendStarted \/ WorkerLaunch \/ WorkerWait
    \/ WorkerSendFinal \/ WorkerExit
    \/ Trigger
    \/ HttpdShutdown
    \/ Cancel \/ Exit

TriggerSpec == Init /\ [][TriggerNext]_vars

(* a step of a goroutine of the program, as opposed to a request, a signal *)
(* or a failure of the listener                                            *)
GoroutineStep ==
    \/ LockerSave \/ LockerGet \/ LockerExit
    \/ WorkerTake \/ WorkerSendStarted \/ WorkerLaunch \/ WorkerWait
    \/ WorkerSendFinal \/ WorkerExit
    \/ \E h \in Handlers : GetReply(h)
    \/ HttpdShutdown
    \/ Exit

----------------------------------------------------------------------------
(* Properties *)

Accepted == [method |-> "POST", code |-> StatusOK, text |-> "Deployment started"]
Conflict == [method |-> "POST", code |-> StatusConflict,
             text |-> "Deployement already in progress"]
InvalidSignature == [method |-> "POST", code |-> StatusBadRequest,
                     text |-> "Invalid signature"]
DecodeFailure == [method |-> "POST", code |-> StatusBadRequest,
                  text |-> "Failed to decode body"]
OtherBranch == [method |-> "POST", code |-> StatusOK,
                text |-> "Not-configured branch detected. No operation required."]
GetFailed == [method |-> "GET", code |-> StatusInternalServerError,
              text |-> "Last deployement failed"]
GetSucceeded == [method |-> "GET", code |-> StatusOK,
                 text |-> "Last deployment succeeded"]

Lines == <<"x", NL, "y">>

(* C1: in every reachable state at most one make deploy is running: a      *)
(* build never starts before the previous one has ended.                   *)
C1_AtMostOneBuild == builds <= 1

(* a build is running while the next trigger already waits in the slot *)
C1_Witness == builds = 1 /\ workChan = 1 /\ lastReply = Accepted

(* C2, as claimed: while the build of an accepted trigger has not ended    *)
(* (the worker has taken its token and has not yet got the result of       *)
(* make), no further trigger is accepted into the slot.                    *)
C2_NoTriggerWhileBuilding ==
    workerPc \in {"sendStarted", "launch", "wait"} => workChan = 0

(* C3: a POST whose X-Hub-Signature is not the signature computed from the *)
(* body and the secret is answered 400 "Invalid signature", whatever its   *)
(* body and whatever the slot holds, and changes neither the trigger       *)
(* channel, nor the status commands, the status, the status file or the    *)
(* builds.                                                                 *)
C3_BadSignatureRejected ==
    [][\A payload \in Payloads : \A signature \in SignaturesFor(payload) :
          (Post(payload, signature) /\ signature # ExpectedSignature(payload, Secret))
          => /\ lastReply' = InvalidSignature
             /\ UNCHANGED <<workChan, lockerChan, lastStatus, lastOutput, file,
                            builds, workerPc, triggered>>]_vars

(* a badly signed POST was rejected while the slot was free, and it is free still *)
C3_Witness == lastReply = InvalidSignature /\ workChan = 0 /\ ~triggered

(* C4: with a branch filter, a correctly signed POST whose body does not   *)
(* decode is answered 400 and one for another ref is answered 200 with no  *)
(* operation; neither puts a token in the trigger channel nor changes a    *)
(* status.  Every other correctly signed POST (all of them without a       *)
(* branch filter) goes to the select, and is accepted when the slot is     *)
(* free.                                                                   *)
C4_BranchFilter ==
    [][\A payload \in Payloads :
          LET signature == ExpectedSignature(payload, Secret)
              eventData == Unmarshal(payload)
              untouched == UNCHANGED <<workChan, lockerChan, lastStatus, lastOutput,
                                       file, builds, workerPc, triggered>>
          IN  Post(payload, signature)
              => IF branch # "" /\ eventData.err
                 THEN lastReply' = DecodeFailure /\ untouched
                 ELSE IF branch # "" /\ eventData.Ref # BranchRef(branch)
                 THEN lastReply' = OtherBranch /\ untouched
                 ELSE IF workChan = 0
                 THEN lastReply' = Accepted /\ workChan' = 1
                 ELSE lastReply' = Conflict /\ workChan' = workChan]_vars

(* a push to another branch was answered with no operation, the slot is free *)
C4_Witness == branch = "main" /\ lastReply = OtherBranch /\ workChan = 0 /\ ~triggered

(* C5: when the last Save of the previous run was written to the status    *)
(* file, every Get answered in the new run before a trigger is accepted    *)
(* returns that status and that output, and GET / answers 500 exactly when *)
(* that status is "failed".                                                *)
C5_RoundTrip ==
    (procState = "running" /\ prevSaved.ok /\ ~triggered)
    => /\ \A h \in Handlers :
             respChan[h] # <<>>
             => /\ Head(respChan[h]).Status = prevSaved.Status
                /\ Head(respChan[h]).Output = prevSaved.Output
       /\ lastReply.method = "GET"
          => (lastReply = GetFailed <=> prevSaved.Status = Failed)

(* after a restart GET / answers 500 for a persisted failure with output of several lines *)
C5_Witness ==
    /\ procState = "running"
    /\ prevSaved = [ok |-> TRUE, Status |-> Failed, Output |-> Lines]
    /\ ~triggered
    /\ lastReply = GetFailed

(* C6: the status locker replies to a Get with the status it holds when it *)
(* processes the command, and GET / is answered 500 if and only if that    *)
(* status is "failed"; for every other status it is answered 200 with the  *)
(* success text.                                                           *)
C6_GetAnswer ==
    [][/\ LockerGet
          => Head(respChan'[Head(lockerChan).ResponseChan]).Status = lastStatus
       /\ \A h \in Handlers :
             GetReply(h)
             => IF Head(respChan[h]).Status = Failed
                THEN lastReply' = GetFailed
                ELSE lastReply' = GetSucceeded]_vars

(* GET / was answered 500 while the status is "failed" *)
C6_Witness == lastReply = GetFailed /\ lastStatus = Failed /\ triggered

(* C7, as claimed: in a run that found no status file, the status is       *)
(* "not started" with the sentinel output until a trigger is accepted.     *)
C7_NotStartedUntilTrigger ==
    (procState = "running" /\ fresh /\ ~triggered)
    => (lastStatus = NotStarted /\ lastOutput = NotStarted)

(* C8: the reply to a Get carries the status and the output of the last    *)
(* Save sent on lockerChan before the Get was sent.                        *)
C8_GetSeesLastSave ==
    \A h \in Handlers :
       respChan[h] # <<>>
       => /\ Head(respChan[h]).Status = handler[h].expect.Status
          /\ Head(respChan[h]).Output = handler[h].expect.Output

(* a Get sent after the Save of a failed build with output got that status and output *)
C8_Witness ==
    \E h \in Handlers :
       /\ respChan[h] # <<>>
       /\ handler[h].expect.Status = Failed
       /\ handler[h].expect.Output = Lines
       /\ Head(respChan[h]).Status = Failed

(* C9: the reply to a Get that was sent while make was running carries the *)
(* status "started".                                                       *)
C9_StartedDuringBuild ==
    \A h \in Handlers :
       (respChan[h] # <<>> /\ handler[h].duringBuild)
       => Head(respChan[h]).Status = Started

(* a Get sent while make was running was answered before make ended *)
C9_Witness ==
    \E h \in Handlers :
       /\ respChan[h] # <<>>
       /\ handler[h].duringBuild
       /\ builds = 1
       /\ Head(respChan[h]).Status = Started

(* C10: a Save whose write to the status file fails still replaces the     *)
(* status and the output in memory, leaves the status locker running and   *)
(* its sender as it was, and the Gets processed after it are answered with *)
(* the new values.                                                         *)
C10_SaveSurvivesWriteError ==
    [][/\ (LockerSave /\ ~persistOK')
          => /\ lastStatus' = Head(lockerChan).Status
             /\ lastOutput' = Head(lockerChan).Output
             /\ lockerPc' = "run"
             /\ UNCHANGED <<procState, exitCode, errors, workerVars, workChan>>
       /\ (LockerGet /\ ~persistOK)
          => LET reply == Head(respChan'[Head(lockerChan).ResponseChan])
             IN  reply.Status = lastStatus /\ reply.Output = lastOutput]_vars

(* the write of a failed build's status failed, and a later Get was answered with it *)
C10_Witness ==
    /\ ~persistOK
    /\ lockerPc = "run"
    /\ lastStatus = Failed
    /\ file # FileOf(FormatStatus(lastStatus, lastOutput))
    /\ \E h \in Handlers :
          respChan[h] # <<>> /\ Head(respChan[h]).Status = Failed

(* C11: a transport failure of the listener ends the process by itself:    *)
(* once ListenAndServe has failed, the process eventually exits with a     *)
(* status other than zero, whether or not a signal arrives.                *)
C11_TransportFailureExits ==
    (errors > 0 /\ procState = "running") ~> (procState = "exited" /\ exitCode # 0)

(* C12: the graceful shutdown terminates: from the cancellation until main *)
(* has returned there is always a goroutine that can take its next step,   *)
(* so the shutdown never comes to a halt before wg.Wait() has returned.    *)
C12_ShutdownProceeds ==
    (cancelled /\ procState = "running") => ENABLED GoroutineStep

(* the Save that the worker sends for the make process that ended last *)
FinalSave(b) ==
    lockerCommand(SAVE_CMD, IF b.err THEN Failed ELSE Ok, b.output, NoChan)

(* C13: the cancellation does not interrupt a build: while make runs the   *)
(* worker waits for it and main has not returned, and a worker that has    *)
(* returned after a build has sent the Save of that build's result.        *)
C13_BuildNotInterrupted ==
    /\ builds > 0 => (procState = "running" /\ workerPc = "wait")
    /\ (workerPc = "done" /\ nBuilds > 0) =>
          (builds = 0 /\ lastBuild.done /\ lastSent = FinalSave(lastBuild))

(* make still runs after the cancellation, when the status locker and the  *)
(* HTTP server have returned                                               *)
C13_Witness ==
    cancelled /\ builds = 1 /\ lockerPc = "done" /\ httpdPc = "done"

(* the changes of the deployment cycle *)
CycleChanges ==
    {<<NotStarted, Started>>, <<Started, Ok>>, <<Started, Failed>>,
     <<Ok, Started>>, <<Failed, Started>>}

(* the stored status changes in a step of a run *)
StatusChanges ==
    procState = "running" /\ procState' = "running" /\ lastStatus' # lastStatus

NoSavePending == \A i \in 1..Len(lockerChan) : lockerChan[i].Command # SAVE_CMD

(* C15: when the worker is between two builds and the status locker has    *)
(* processed every Save sent so far, the stored status is "failed" if the  *)
(* build that ended last returned an error and "ok" if not, and the stored *)
(* output is the output of that build.                                     *)
C15_StoredIsLastBuild ==
    (/\ procState = "running"
     /\ lastBuild.done
     /\ workerPc \in {"select", "done"}
     /\ NoSavePending)
    => /\ lastStatus = IF lastBuild.err THEN Failed ELSE Ok
       /\ lastOutput = lastBuild.output

(* the second build of a run failed after its first; its result is stored *)
C15_Witness ==
    /\ procState = "running"
    /\ nBuilds = 2
    /\ lastBuild.done /\ lastBuild.err /\ lastBuild.output = Lines
    /\ workerPc = "select"
    /\ NoSavePending
    /\ lastStatus = Failed

(* C16: nothing is lost when the status locker returns on the              *)
(* cancellation: once the locker and the worker have both returned, the    *)
(* result of the build that ended last has been applied by the locker.     *)
C16_NothingLostAtShutdown ==
    (/\ procState = "running"
     /\ lockerPc = "done"
     /\ workerPc = "done"
     /\ lastBuild.done)
    => /\ lastStatus = IF lastBuild.err THEN Failed ELSE Ok
       /\ lastOutput = lastBuild.output

(* tokens of accepted triggers that have not yet led to a make process:    *)
(* the one in workChan and the one the worker has taken                    *)
TokensHeld ==
    workChan + (IF workerPc \in {"sendStarted", "launch"} THEN 1 ELSE 0)

(* C17: a build is only started by an accepted trigger, one build for a    *)
(* trigger: the make processes started in a run plus the tokens not yet    *)
(* used are the triggers answered "Deployment started" in that run, so     *)
(* there are never more builds than accepted triggers and a failed build   *)
(* is not run again.                                                       *)
C17_OneBuildPerTrigger ==
    /\ nBuilds + TokensHeld = nAccepted
    /\ nBuilds <= nAccepted

(* the only build of a run has failed and the worker is back in its        *)
(* select with no token to take                                            *)
C17_Witness ==
    /\ procState = "running"
    /\ nAccepted = 1 /\ nBuilds = 1
    /\ lastBuild.done /\ lastBuild.err
    /\ workerPc = "select" /\ workChan = 0
    /\ lastStatus = Failed

(* the terminal Saves of the worker that wait in lockerChan; the first     *)
(* command is the Save of main as long as the status is "not started"      *)
FinalsPending ==
    Cardinality({i \in 1..Len(lockerChan) :
                    /\ lockerChan[i].Command = SAVE_CMD
                    /\ lockerChan[i].Status \in {Ok, Failed}
                    /\ ~(i = 1 /\ lastStatus = NotStarted)})

(* the builds of this run whose cycle is complete: make has ended and the  *)
(* status locker has applied the Save of its result                        *)
BuildsApplied ==
    nBuilds - (IF workerPc \in {"wait", "sendFinal"} THEN 1 ELSE 0) - FinalsPending

(* C18, as claimed: every accepted trigger is eventually followed by a     *)
(* complete build cycle: the k-th trigger accepted in a run leads to a     *)
(* state where k builds have ended and their results have been applied.    *)
C18_AcceptedIsBuilt ==
    \A k \in 1..MaxRequests :
       (procState = "running" /\ nAccepted >= k) ~> (BuildsApplied >= k)

(* C18, amended: every accepted trigger is eventually followed by a        *)
(* complete build cycle unless the cancellation is raised first.           *)
C18_AcceptedIsBuiltUnlessCancelled ==
    \A k \in 1..MaxRequests :
       (procState = "running" /\ nAccepted >= k) ~> (cancelled \/ BuildsApplied >= k)

(* two triggers were accepted and both builds are complete, with no        *)
(* cancellation                                                            *)
C18_Witness ==
    procState = "running" /\ ~cancelled /\ nAccepted = 2 /\ BuildsApplied = 2

(* C19: once the cancellation is raised the worker takes no token from     *)
(* workChan: no step after the cancellation is the worker's receive.       *)
C19_NoTakeAfterCancel ==
    [][cancelled => ~(workerPc = "select" /\ workerPc' = "sendStarted")]_vars

(* C20: every status query gets its reply: no GET handler is left waiting  *)
(* on its respChan for a reply that can no longer come, the status locker  *)
(* having returned; this also when the cancellation is raised while the    *)
(* query is in flight.                                                     *)
C20_NoQueryLeftBehind ==
    \A h \in Handlers :
       (procState = "running" /\ handler[h].pc = "waitResp" /\ respChan[h] = <<>>)
       => lockerPc = "run"

====
